---- MODULE Spec2Model ----
(***************************************************************************)
(* Model of src/server.js: an Express server with an in-memory user        *)
(* directory (users) and an in-memory bank ledger (balance, transactions). *)
(* Each route handler is one action.  Node runs one handler to completion  *)
(* before the next, so a handler is one atomic step.                       *)
(*                                                                         *)
(* Numbers are JavaScript numbers: a request body is parsed by JSON.parse, *)
(* which turns a literal beyond the double range (1e999) into Infinity,    *)
(* and an addition beyond the range overflows to Infinity.  The finite     *)
(* range is scaled down to -MaxFinite..MaxFinite and only integral values  *)
(* are drawn.  The date field of a transaction (line 199, 228) is the wall *)
(* clock at the time of the request and is not modelled.                   *)
(***************************************************************************)
EXTENDS Integers, Sequences, FiniteSets, TLC

\* ---------------------------------------------------------------- bounds
MaxFinite == 1      \* largest finite number (stands for Number.MAX_VALUE)
MaxLog == 2         \* accepted bank requests explored per log
MaxUsers == 2       \* longest users list explored

\* ------------------------------------------------------ JavaScript values
Fin(n) == [k |-> "fin", v |-> n]
PosInf == [k |-> "inf", v |-> 1]
NegInf == [k |-> "inf", v |-> -1]
NaN == [k |-> "nan", v |-> 0]
Undefined == [k |-> "undefined", v |-> 0]
Null == [k |-> "null", v |-> 0]
StrVal == [k |-> "string", v |-> 0]

TypeofNumber(x) == x.k \in {"fin", "inf", "nan"}

\* position of a non-NaN number on the extended number line
Ord(x) == IF x.k = "fin" THEN x.v ELSE x.v * (MaxFinite + 1)

\* an exact integral result, overflowing to +-Infinity beyond the range
Round(n) ==
    IF n > MaxFinite THEN PosInf
    ELSE IF n < -MaxFinite THEN NegInf
    ELSE Fin(n)

JsNeg(x) ==
    IF x.k = "fin" THEN Fin(-x.v)
    ELSE IF x.k = "inf" THEN [k |-> "inf", v |-> -x.v]
    ELSE NaN

JsAdd(x, y) ==
    IF x.k = "nan" \/ y.k = "nan" THEN NaN
    ELSE IF x.k = "fin" /\ y.k = "fin" THEN Round(x.v + y.v)
    ELSE IF x.k = "inf" /\ y.k = "inf" THEN (IF x.v = y.v THEN x ELSE NaN)
    ELSE IF x.k = "inf" THEN x
    ELSE y

JsSub(x, y) == JsAdd(x, JsNeg(y))

JsLe(x, y) == x.k # "nan" /\ y.k # "nan" /\ Ord(x) <= Ord(y)
JsGt(x, y) == x.k # "nan" /\ y.k # "nan" /\ Ord(x) > Ord(y)
JsGe(x, y) == x.k # "nan" /\ y.k # "nan" /\ Ord(x) >= Ord(y)

\* JSON.stringify of a number: a non-finite number is written as null
JsonNumber(x) == IF x.k = "fin" THEN x ELSE Null

\* values req.body.amount can take after express.json()
Amounts ==
    {Undefined, StrVal, NegInf, PosInf} \cup {Fin(n) : n \in -1..MaxFinite}

\* ---------------------------------------------------------- route params
Digits == {"1", "2", "3"}
DigitVal(c) == IF c = "1" THEN 1 ELSE IF c = "2" THEN 2 ELSE 3

\* values req.params.id takes: ids, a non-numeric string, a number followed
\* by other characters, and a number of two digits
Params == {<<"1">>, <<"2">>, <<"3">>, <<"x">>, <<"2", "x">>, <<"1", "2">>}

RECURSIVE DigitsValue(_, _)
DigitsValue(s, acc) ==
    IF s = <<>> \/ Head(s) \notin Digits THEN acc
    ELSE DigitsValue(Tail(s), 10 * acc + DigitVal(Head(s)))

\* parseInt: the value of the leading run of digits, NaN when there is none
ParseInt(s) ==
    IF s = <<>> \/ Head(s) \notin Digits THEN NaN
    ELSE Fin(DigitsValue(s, 0))

\* u.id === parseInt(req.params.id)
IdMatches(id, p) == p.k = "fin" /\ p.v = id

\* values req.body.name takes (the name is stored and echoed, never tested)
BodyNames == {"Charlie"}

\* ------------------------------------------------------------------ state
VARIABLES users, balance, transactions, resp

vars == <<users, balance, transactions, resp>>

Response(op, status, text) ==
    [op |-> op, status |-> status, text |-> text, amount |-> Undefined,
     balance |-> Undefined, user |-> <<>>, users |-> <<>>, txs |-> <<>>]

Init ==
    /\ users = <<[id |-> 1, name |-> "Eddie"], [id |-> 2, name |-> "Kai"]>>
    /\ balance = Fin(0)
    /\ transactions = <<>>
    /\ resp = Response("none", 0, "")

\* Array.prototype.find: index of the first match, 0 when there is none
FindUser(us, p) ==
    IF \E i \in 1..Len(us) : IdMatches(us[i].id, p)
    THEN CHOOSE i \in 1..Len(us) :
            /\ IdMatches(us[i].id, p)
            /\ \A j \in 1..(i - 1) : ~IdMatches(us[j].id, p)
    ELSE 0

\* Array.prototype.filter keeping the users whose id differs from p
RECURSIVE FilterUsers(_, _)
FilterUsers(us, p) ==
    IF us = <<>> THEN <<>>
    ELSE IF IdMatches(Head(us).id, p) THEN FilterUsers(Tail(us), p)
    ELSE <<Head(us)>> \o FilterUsers(Tail(us), p)

\* ------------------------------------------------------------- user API
GetRoot ==
    /\ resp' = Response("root", 200, "Welcome to the backend!")
    /\ UNCHANGED <<users, balance, transactions>>

GetUsers ==
    /\ resp' = [Response("getUsers", 200, "") EXCEPT !.users = users]
    /\ UNCHANGED <<users, balance, transactions>>

GetUser(param) ==
    LET i == FindUser(users, ParseInt(param)) IN
    /\ resp' = IF i = 0 THEN Response("getUser", 404, "User not found")
               ELSE [Response("getUser", 200, "") EXCEPT !.user = <<users[i]>>]
    /\ UNCHANGED <<users, balance, transactions>>

NextUserIdMax(us) ==
    IF us = <<>> THEN 1
    ELSE 1 + CHOOSE m \in {us[i].id : i \in 1..Len(us)} :
                \A j \in 1..Len(us) : us[j].id <= m

NextUserId(us) == Len(us) + 1

CreateUser(name) ==
    LET newUser == [id |-> NextUserId(users), name |-> name] IN
    /\ Len(users) < MaxUsers
    /\ users' = Append(users, newUser)
    /\ resp' = [Response("createUser", 201, "") EXCEPT !.user = <<newUser>>]
    /\ UNCHANGED <<balance, transactions>>

UpdateUser(param, name) ==
    LET i == FindUser(users, ParseInt(param)) IN
    IF i = 0
    THEN /\ resp' = Response("updateUser", 404, "User not found")
         /\ UNCHANGED <<users, balance, transactions>>
    ELSE /\ users' = [users EXCEPT ![i].name = name]
         /\ resp' = [Response("updateUser", 200, "")
                        EXCEPT !.user = <<users'[i]>>]
         /\ UNCHANGED <<balance, transactions>>

DeleteUser(param) ==
    /\ users' = FilterUsers(users, ParseInt(param))
    /\ resp' = Response("deleteUser", 200, "User deleted")
    /\ UNCHANGED <<balance, transactions>>

\* ------------------------------------------------------------- bank API
GetBalance ==
    /\ resp' = [Response("getBalance", 200, "")
                   EXCEPT !.balance = JsonNumber(balance)]
    /\ UNCHANGED <<users, balance, transactions>>

\* typeof amount !== "number" || amount <= 0
InvalidAmount(amount) == ~TypeofNumber(amount) \/ JsLe(amount, Fin(0))

InsufficientFundsGe(amount, bal) == JsGe(amount, bal)

\* amount > balance
InsufficientFunds(amount, bal) == JsGt(amount, bal)

PushTransactionFront(log, entry) == <<entry>> \o log

\* transactions.push(entry)
PushTransaction(log, entry) == Append(log, entry)

Deposit(amount) ==
    IF InvalidAmount(amount)
    THEN /\ resp' = Response("deposit", 400, "Invalid deposit amount")
         /\ UNCHANGED <<users, balance, transactions>>
    ELSE /\ Len(transactions) < MaxLog
         /\ balance' = JsAdd(balance, amount)
         /\ transactions' = PushTransaction(transactions,
                                [type |-> "deposit", amount |-> amount])
         /\ resp' = [Response("deposit", 200, "Deposited")
                        EXCEPT !.amount = amount,
                               !.balance = JsonNumber(balance')]
         /\ UNCHANGED users

Withdraw(amount) ==
    IF InvalidAmount(amount)
    THEN /\ resp' = Response("withdraw", 400, "Invalid withdrawal amount")
         /\ UNCHANGED <<users, balance, transactions>>
    ELSE IF InsufficientFunds(amount, balance)
    THEN /\ resp' = Response("withdraw", 400, "Insufficient funds")
         /\ UNCHANGED <<users, balance, transactions>>
    ELSE /\ Len(transactions) < MaxLog
         /\ balance' = JsSub(balance, amount)
         /\ transactions' = PushTransaction(transactions,
                                [type |-> "withdrawal", amount |-> amount])
         /\ resp' = [Response("withdraw", 200, "Withdrew")
                        EXCEPT !.amount = amount,
                               !.balance = JsonNumber(balance')]
         /\ UNCHANGED users

GetTransactions ==
    /\ resp' = [Response("getTransactions", 200, "") EXCEPT !.txs = transactions]
    /\ UNCHANGED <<users, balance, transactions>>

ClearTransactionsAndBalance ==
    /\ transactions' = <<>>
    /\ balance' = Fin(0)
    /\ resp' = Response("clearTransactions", 200, "All transactions cleared.")
    /\ UNCHANGED users

ClearTransactions ==
    /\ transactions' = <<>>
    /\ resp' = Response("clearTransactions", 200, "All transactions cleared.")
    /\ UNCHANGED <<users, balance>>

\* the user routes (and the root route)
NextUsers ==
    \/ GetRoot
    \/ GetUsers
    \/ \E p \in Params : GetUser(p)
    \/ \E n \in BodyNames : CreateUser(n)
    \/ \E p \in Params, n \in BodyNames : UpdateUser(p, n)
    \/ \E p \in Params : DeleteUser(p)

\* the bank routes
NextBank ==
    \/ GetBalance
    \/ \E a \in Amounts : Deposit(a)
    \/ \E a \in Amounts : Withdraw(a)
    \/ GetTransactions
    \/ ClearTransactions

Next == NextUsers \/ NextBank

Spec == Init /\ [][Next]_vars

\* The bank routes never read or write users; they are also explored on
\* their own, with users left at its initial value.
BankSpec == Init /\ [][NextBank]_vars


\* ----------------------------------------------------------- properties
IsPrefix(s, t) == Len(s) <= Len(t) /\ SubSeq(t, 1, Len(s)) = s

UniqueIds(us) == \A i, j \in 1..Len(us) : us[i].id = us[j].id => i = j

\* sum of the deposits minus sum of the withdrawals of a log
RECURSIVE LogSum(_)
LogSum(log) ==
    IF log = <<>> THEN Fin(0)
    ELSE LET e == log[Len(log)]
             rest == LogSum(SubSeq(log, 1, Len(log) - 1))
         IN IF e.type = "deposit" THEN JsAdd(rest, e.amount)
            ELSE JsSub(rest, e.amount)

\* C1: in every reachable state balance >= 0.
BalanceNeverNegative == JsGe(balance, Fin(0))

\* C2: POST /users appends a user whose id is the number of users before
\* the request plus one and leaves the other entries alone, so when an
\* entry already carries that id the list afterwards holds a duplicate id.
CreateUsesLengthPlusOne ==
    [][resp'.op = "createUser" =>
          /\ Len(users') = Len(users) + 1
          /\ IsPrefix(users, users')
          /\ users'[Len(users')].id = Len(users) + 1
          /\ ((\E i \in 1..Len(users) : users[i].id = Len(users) + 1)
                 => ~UniqueIds(users'))]_vars

\* C2 witness: after DELETE /users/1 and POST /users both users have id 2.
DuplicateIdsReached ==
    /\ resp.op = "createUser"
    /\ Len(users) = 2
    /\ users[1].id = 2
    /\ users[2].id = 2

\* C3 as stated: every step keeps the old transactions list as a prefix of
\* the new one.
AppendOnly == [][IsPrefix(transactions, transactions')]_vars

\* C3 amended: every request other than DELETE /transactions keeps the old
\* transactions list as a prefix of the new one, and DELETE /transactions
\* leaves the list empty.
AppendOnlyExceptClear ==
    [][/\ resp'.op # "clearTransactions"
            => IsPrefix(transactions, transactions')
       /\ resp'.op = "clearTransactions" => transactions' = <<>>]_vars

\* C3 witness: a withdrawal has been appended behind an earlier deposit.
LogGrewByAppend ==
    /\ resp.op = "withdraw"
    /\ resp.status = 200
    /\ Len(transactions) = 2
    /\ transactions[1].type = "deposit"
    /\ transactions[2].type = "withdrawal"

\* C4: DELETE /transactions empties the log and leaves balance unchanged.
ClearKeepsBalance ==
    [][resp'.op = "clearTransactions" =>
          /\ transactions' = <<>>
          /\ balance' = balance]_vars

\* C4 witness: after a deposit and DELETE /transactions the balance differs
\* from the sum over the (empty) log.
BalanceDiffersFromLog ==
    /\ resp.op = "clearTransactions"
    /\ transactions = <<>>
    /\ balance.k = "fin"
    /\ balance.v > 0
    /\ balance # LogSum(transactions)

\* C5: POST /deposit answers 400 exactly when amount is not a number or
\* amount <= 0; POST /withdraw answers 400 exactly when amount is not a
\* number, amount <= 0 or amount > balance; a 400 leaves balance and
\* transactions as they were.
RejectedChangesNothing ==
    [][/\ \A a \in Amounts : (resp'.op = "deposit" /\ Deposit(a)) =>
            /\ resp'.status = 400
                  <=> (~TypeofNumber(a) \/ JsLe(a, Fin(0)))
            /\ resp'.status = 400
                  => (balance' = balance /\ transactions' = transactions)
       /\ \A a \in Amounts : (resp'.op = "withdraw" /\ Withdraw(a)) =>
            /\ resp'.status = 400
                  <=> (~TypeofNumber(a) \/ JsLe(a, Fin(0)) \/ JsGt(a, balance))
            /\ resp'.status = 400
                  => (balance' = balance /\ transactions' = transactions)]_vars

\* C5 witness: a withdrawal above a positive balance has been refused.
InsufficientFundsRefused ==
    /\ resp.op = "withdraw"
    /\ resp.status = 400
    /\ resp.text = "Insufficient funds"
    /\ balance.k = "fin"
    /\ balance.v > 0
    /\ transactions # <<>>

\* C6: an accepted POST /deposit of a sets balance' = balance + a and
\* appends one "deposit" entry of amount a; an accepted POST /withdraw of a
\* sets balance' = balance - a and appends one "withdrawal" entry of amount
\* a; the balance of the response equals balance'; every entry of the log
\* has type deposit or withdrawal and an amount > 0.
AcceptedUpdatesTogether ==
    [][/\ \A a \in Amounts : (Deposit(a) /\ resp'.status = 200) =>
            /\ balance' = JsAdd(balance, a)
            /\ transactions' =
                  Append(transactions, [type |-> "deposit", amount |-> a])
            /\ resp'.balance = balance'
       /\ \A a \in Amounts : (Withdraw(a) /\ resp'.status = 200) =>
            /\ balance' = JsSub(balance, a)
            /\ transactions' =
                  Append(transactions, [type |-> "withdrawal", amount |-> a])
            /\ resp'.balance = balance'
       /\ \A i \in 1..Len(transactions') :
            /\ transactions'[i].type \in {"deposit", "withdrawal"}
            /\ JsGt(transactions'[i].amount, Fin(0))]_vars

====
